---- MODULE Spec2Model ----
(***************************************************************************)
(* Taskade-Tower: an Express server (src/index.js, second listing, lines   *)
(* 768-2313) that forwards REST requests to six vendors through the        *)
(* service classes GitlabService, GoogleDocsService, GeminiService,        *)
(* CloudflareService and HuggingFaceService, and to the Taskade API        *)
(* through axios.                                                          *)
(*                                                                         *)
(* A request is a small process.  One step of it is what Node runs between *)
(* two awaits: Arrive runs the handler from its first line to its first    *)
(* vendor call (or to an early response), VendorReturn and VendorFail      *)
(* resolve the pending vendor call and run the service method and the      *)
(* handler on to the next vendor call or to the response.                  *)
(***************************************************************************)
EXTENDS Integers, Sequences, FiniteSets, TLC

VARIABLES env, services, reqs, fileExists, doc

vars == <<env, services, reqs, fileExists, doc>>

(***************************************************************************)
(* Bounds                                                                  *)
(***************************************************************************)
NumReqs == 2        \* request slots: requests in flight at the same time
MaxDocEnd == 4      \* largest endIndex the shared document grows to

Reqs == 1..NumReqs

(***************************************************************************)
(* JavaScript values of request fields and environment variables           *)
(***************************************************************************)
Undef == "undefined"
Vals == {Undef, "", "v"}

\* !x of JavaScript for the string-or-undefined values of the model
Falsy(x) == x \in {Undef, ""}
Truthy(x) == ~Falsy(x)

(***************************************************************************)
(* Environment and service initialization                                  *)
(***************************************************************************)
GuardedServices == {"gemini", "cloudflare", "huggingface", "gitlab"}
Services == GuardedServices \cup {"googledocs", "taskade"}

KeyOf(s) ==
  CASE s = "gemini" -> "GEMINI_API_KEY"
    [] s = "cloudflare" -> "CLOUDFLARE_API_KEY"
    [] s = "huggingface" -> "HUGGINGFACE_API_KEY"
    [] s = "gitlab" -> "GITLAB_API_KEY"
    [] s = "taskade" -> "TASKADE_API_KEY"

EnvVars == {KeyOf(s) : s \in GuardedServices \cup {"taskade"}}

\* the values the model gives an environment variable
EnvVals(k) == IF k = "TASKADE_API_KEY" THEN {Undef, "", "k1", "k2"} ELSE {Undef, "k1"}

\* constructor of GeminiService, CloudflareService, HuggingFaceService,
\* GitlabService: throws when the key is not set
ConstructorThrows(s, e) == Falsy(e[KeyOf(s)])

\* index.js 781-814: googleDocsService is always constructed; the four
\* others stay undefined when their constructor throws
InitServices(e) ==
  [s \in GuardedServices \cup {"googledocs"} |->
     IF s = "googledocs" THEN TRUE ELSE ~ConstructorThrows(s, e)]

(***************************************************************************)
(* The REST surface: one row per vendor endpoint of index.js               *)
(*   svc    the service whose handle the handler uses first                *)
(*   kind   the shape of the handler                                       *)
(*   check  the validation made before the first vendor call               *)
(*   fields the body (or query) fields the handler reads before that call  *)
(*   method the service method (or axios verb) the handler awaits first    *)
(***************************************************************************)
EP(ep, svc, kind, check, fields, method) ==
  [ep |-> ep, svc |-> svc, kind |-> kind, check |-> check, fields |-> fields,
   method |-> method]

HuggingFaceEndpoints ==
  { EP("POST /huggingface/text-generation", "huggingface", "simple", "required", {"prompt"}, "generateText"),
    EP("POST /huggingface/text-classification", "huggingface", "simple", "required", {"text"}, "classifyText"),
    EP("POST /huggingface/question-answering", "huggingface", "simple", "required", {"question", "context"}, "answerQuestion"),
    EP("POST /huggingface/summarization", "huggingface", "simple", "required", {"text"}, "summarizeText"),
    EP("POST /huggingface/entity-recognition", "huggingface", "simple", "required", {"text"}, "extractEntities"),
    EP("POST /huggingface/translation", "huggingface", "simple", "required", {"text"}, "translateText"),
    EP("POST /huggingface/embeddings", "huggingface", "simple", "required", {"text"}, "getEmbeddings"),
    EP("POST /huggingface/fill-mask", "huggingface", "simple", "required", {"text"}, "fillMask"),
    EP("POST /huggingface/image-classification", "huggingface", "simple", "required", {"imageUrl"}, "classifyImage"),
    EP("POST /huggingface/object-detection", "huggingface", "simple", "required", {"imageUrl"}, "detectObjects"),
    EP("POST /huggingface/text-to-image", "huggingface", "simple", "required", {"prompt"}, "generateImage") }

GitlabEndpoints ==
  { EP("GET /gitlab/user", "gitlab", "simple", "none", {}, "getCurrentUser"),
    EP("GET /gitlab/projects", "gitlab", "simple", "none", {"owned", "membership", "search", "visibility", "other"}, "getProjects"),
    EP("GET /gitlab/projects/:projectId", "gitlab", "simple", "none", {}, "getProject"),
    EP("POST /gitlab/projects", "gitlab", "simple", "required", {"name"}, "createProject"),
    EP("GET /gitlab/projects/:projectId/branches", "gitlab", "simple", "none", {}, "getBranches"),
    EP("POST /gitlab/projects/:projectId/branches", "gitlab", "simple", "required", {"branch_name"}, "createBranch"),
    EP("GET /gitlab/projects/:projectId/commits", "gitlab", "simple", "none", {}, "getCommits"),
    EP("GET /gitlab/projects/:projectId/commits/:commitSha", "gitlab", "simple", "none", {}, "getCommit"),
    EP("GET /gitlab/projects/:projectId/issues", "gitlab", "simple", "none", {}, "getIssues"),
    EP("POST /gitlab/projects/:projectId/issues", "gitlab", "simple", "required", {"title"}, "createIssue"),
    EP("PUT /gitlab/projects/:projectId/issues/:issueIid", "gitlab", "simple", "none", {}, "updateIssue"),
    EP("GET /gitlab/projects/:projectId/merge_requests", "gitlab", "simple", "none", {}, "getMergeRequests"),
    EP("POST /gitlab/projects/:projectId/merge_requests", "gitlab", "simple", "required", {"title", "source_branch", "target_branch"}, "createMergeRequest"),
    EP("GET /gitlab/projects/:projectId/pipelines", "gitlab", "simple", "none", {}, "getPipelines"),
    EP("POST /gitlab/projects/:projectId/pipelines", "gitlab", "simple", "required", {"ref"}, "createPipeline"),
    EP("GET /gitlab/projects/:projectId/members", "gitlab", "simple", "none", {}, "getProjectMembers"),
    EP("POST /gitlab/projects/:projectId/members", "gitlab", "simple", "required", {"user_id", "access_level"}, "addProjectMember"),
    EP("GET /gitlab/projects/:projectId/repository/files", "gitlab", "simple", "none", {}, "getRepositoryFiles"),
    EP("POST /gitlab/projects/:projectId/repository/files", "gitlab", "simple", "required", {"file_path", "content", "commit_message"}, "createOrUpdateFile"),
    EP("DELETE /gitlab/projects/:projectId/repository/files", "gitlab", "simple", "required", {"file_path", "commit_message"}, "deleteFile"),
    EP("GET /gitlab/projects/:projectId/statistics", "gitlab", "simple", "none", {}, "getProjectStatistics") }

CloudflareEndpoints ==
  { EP("GET /cloudflare/zones", "cloudflare", "simple", "none", {}, "getZones"),
    EP("GET /cloudflare/zones/:zoneId", "cloudflare", "simple", "none", {}, "getZone"),
    EP("GET /cloudflare/zones/:zoneId/dns", "cloudflare", "simple", "none", {}, "getDNSRecords"),
    EP("POST /cloudflare/zones/:zoneId/dns", "cloudflare", "simple", "required", {"type", "name", "content"}, "createDNSRecord"),
    EP("PUT /cloudflare/zones/:zoneId/dns/:recordId", "cloudflare", "simple", "none", {}, "updateDNSRecord"),
    EP("DELETE /cloudflare/zones/:zoneId/dns/:recordId", "cloudflare", "simple", "none", {}, "deleteDNSRecord"),
    EP("POST /cloudflare/zones/:zoneId/purge-cache", "cloudflare", "simple", "none", {}, "purgeCache"),
    EP("GET /cloudflare/zones/:zoneId/analytics", "cloudflare", "simple", "none", {}, "getAnalytics"),
    EP("GET /cloudflare/zones/:zoneId/security", "cloudflare", "simple", "none", {}, "getSecuritySettings"),
    EP("PUT /cloudflare/zones/:zoneId/security-level", "cloudflare", "simple", "level", {"level"}, "updateSecurityLevel"),
    EP("GET /cloudflare/zones/:zoneId/ssl", "cloudflare", "simple", "none", {}, "getSSLSettings"),
    EP("PUT /cloudflare/zones/:zoneId/ssl", "cloudflare", "simple", "mode", {"mode"}, "updateSSLMode") }

GeminiEndpoints ==
  { EP("POST /gemini/generate", "gemini", "simple", "required", {"prompt"}, "generateContent"),
    EP("POST /gemini/analyze", "gemini", "simple", "required", {"text"}, "analyzeContent"),
    EP("POST /gemini/generate-document", "gemini", "generateDocument", "required", {"topic"}, "generateDocumentContent"),
    EP("POST /gemini/enhance-document/:documentId", "gemini", "enhanceDocument", "none", {}, "getDocument"),
    EP("GET /gemini/analyze-document/:documentId", "gemini", "analyzeDocument", "none", {}, "getDocument") }

GoogleDocsEndpoints ==
  { EP("POST /google-docs/create", "googledocs", "simple", "none", {}, "createDocument"),
    EP("GET /google-docs/:documentId", "googledocs", "simple", "none", {}, "getDocument"),
    EP("POST /google-docs/:documentId/insert", "googledocs", "simple", "required", {"text"}, "insertText"),
    EP("POST /google-docs/:documentId/append", "googledocs", "simple", "required", {"text"}, "appendText"),
    EP("POST /google-docs/:documentId/replace", "googledocs", "simple", "replace", {"searchText", "replaceText"}, "replaceText"),
    EP("POST /google-docs/:documentId/update", "googledocs", "simple", "requests", {"requests"}, "updateDocument") }

TaskadeEndpoints ==
  { EP("GET /taskade-tower/agents", "taskade", "taskade", "none", {}, "axios.get"),
    EP("POST /taskade-tower/agents", "taskade", "taskade", "none", {}, "axios.post"),
    EP("GET /taskade-tower/agents/:agentId", "taskade", "taskade", "none", {}, "axios.get"),
    EP("PUT /taskade-tower/agents/:agentId", "taskade", "taskade", "none", {}, "axios.put"),
    EP("DELETE /taskade-tower/agents/:agentId", "taskade", "taskade", "none", {}, "axios.delete"),
    EP("POST /taskade-tower/agents/:agentId/execute", "taskade", "taskade", "none", {}, "axios.post") }

EndpointTable ==
  HuggingFaceEndpoints \cup GitlabEndpoints \cup CloudflareEndpoints \cup
  GeminiEndpoints \cup GoogleDocsEndpoints \cup TaskadeEndpoints

Endpoints == {e.ep : e \in EndpointTable}

Row == [ep \in Endpoints |-> CHOOSE e \in EndpointTable : e.ep = ep]

\* the flag a handler reads from the body besides its validated fields
FlagOf(ep) ==
  CASE Row[ep].kind = "generateDocument" -> {"createGoogleDoc"}
    [] Row[ep].kind = "enhanceDocument" -> {"replaceOriginal"}
    [] OTHER -> {}

BodyFields(ep) == Row[ep].fields \cup FlagOf(ep)

SecurityLevels == {"off", "essentially_off", "low", "medium", "high", "under_attack"}
SSLModes == {"off", "flexible", "full", "strict"}

\* the values the model gives a field of a request
FieldVals(ep, f) ==
  CASE f = "level" -> Vals \cup SecurityLevels \cup SSLModes
    [] f = "mode" -> Vals \cup SecurityLevels \cup SSLModes
    [] f = "requests" -> Vals \cup {"array"}
    [] f = "owned" -> {Undef, "", "true", "v"}
    [] f = "membership" -> {Undef, "true", "v"}
    [] f = "search" -> {Undef, "v"}
    [] f = "visibility" -> {"", "v"}
    [] f = "other" -> {Undef, "v"}
    [] OTHER -> Vals

Bodies(ep) ==
  {b \in [BodyFields(ep) -> UNION {FieldVals(ep, f) : f \in BodyFields(ep)} \cup {Undef}] :
     \A f \in BodyFields(ep) : b[f] \in FieldVals(ep, f)}

\* mutant: the validations test for undefined only, an empty string passes
Invalid_MissingOnly(ep, b) ==
  CASE Row[ep].check = "none" -> FALSE
    [] Row[ep].check = "required" -> \E f \in Row[ep].fields : b[f] = Undef
    [] Row[ep].check = "level" -> b["level"] \notin SecurityLevels
    [] Row[ep].check = "mode" -> b["mode"] \notin SSLModes
    [] Row[ep].check = "replace" -> b["searchText"] = Undef \/ b["replaceText"] = Undef
    [] Row[ep].check = "requests" -> b["requests"] # "array"

\* mutant: the two setting endpoints test against one list of all values
Invalid_SharedList(ep, b) ==
  CASE Row[ep].check = "none" -> FALSE
    [] Row[ep].check = "required" -> \E f \in Row[ep].fields : Falsy(b[f])
    [] Row[ep].check = "level" -> Falsy(b["level"]) \/ b["level"] \notin SecurityLevels \cup SSLModes
    [] Row[ep].check = "mode" -> Falsy(b["mode"]) \/ b["mode"] \notin SecurityLevels \cup SSLModes
    [] Row[ep].check = "replace" -> Falsy(b["searchText"]) \/ b["replaceText"] = Undef
    [] Row[ep].check = "requests" -> Falsy(b["requests"]) \/ b["requests"] # "array"

\* the condition under which the handler answers 400 before any vendor call
Invalid(ep, b) ==
  CASE Row[ep].check = "none" -> FALSE
    [] Row[ep].check = "required" -> \E f \in Row[ep].fields : Falsy(b[f])
    [] Row[ep].check = "level" -> Falsy(b["level"]) \/ b["level"] \notin SecurityLevels
    [] Row[ep].check = "mode" -> Falsy(b["mode"]) \/ b["mode"] \notin SSLModes
    [] Row[ep].check = "replace" -> Falsy(b["searchText"]) \/ b["replaceText"] = Undef
    [] Row[ep].check = "requests" -> Falsy(b["requests"]) \/ b["requests"] # "array"

(***************************************************************************)
(* Service methods: the vendor calls each method awaits, in order          *)
(***************************************************************************)
\* google-docs-service.js defines createDocument twice in one class body
CreateDocumentDefinitions ==
  << <<"docs.documents.create", "drive.permissions.create">>,   \* lines 33-55
     <<"docs.documents.create">> >>                             \* lines 152-164

\* JavaScript class bodies: a later method definition of the same name
\* replaces the earlier one
EffectiveDefinition(defs) == defs[Len(defs)]

MethodCalls(m) ==
  CASE m = "generateText" -> <<"hf.textGeneration">>
    [] m = "classifyText" -> <<"hf.textClassification">>
    [] m = "answerQuestion" -> <<"hf.questionAnswering">>
    [] m = "summarizeText" -> <<"hf.summarization">>
    [] m = "extractEntities" -> <<"hf.tokenClassification">>
    [] m = "translateText" -> <<"hf.translation">>
    [] m = "getEmbeddings" -> <<"hf.featureExtraction">>
    [] m = "fillMask" -> <<"hf.fillMask">>
    [] m = "classifyImage" -> <<"fetch", "response.blob", "hf.imageClassification">>
    [] m = "detectObjects" -> <<"fetch", "response.blob", "hf.objectDetection">>
    [] m = "generateImage" -> <<"hf.textToImage">>
    [] m = "getCurrentUser" -> <<"Users.current">>
    [] m = "getProjects" -> <<"Projects.all">>
    [] m = "getProject" -> <<"Projects.show">>
    [] m = "createProject" -> <<"Projects.create">>
    [] m = "getBranches" -> <<"Branches.all">>
    [] m = "createBranch" -> <<"Branches.create">>
    [] m = "getCommits" -> <<"Commits.all">>
    [] m = "getCommit" -> <<"Commits.show">>
    [] m = "getIssues" -> <<"Issues.all">>
    [] m = "createIssue" -> <<"Issues.create">>
    [] m = "updateIssue" -> <<"Issues.edit">>
    [] m = "getMergeRequests" -> <<"MergeRequests.all">>
    [] m = "createMergeRequest" -> <<"MergeRequests.create">>
    [] m = "getPipelines" -> <<"Pipelines.all">>
    [] m = "createPipeline" -> <<"Pipelines.create">>
    [] m = "getProjectMembers" -> <<"ProjectMembers.all">>
    [] m = "addProjectMember" -> <<"ProjectMembers.add">>
    [] m = "getRepositoryFiles" -> <<"RepositoryFiles.showRaw">>
    [] m = "createOrUpdateFile" -> <<"RepositoryFiles.show">>
    [] m = "deleteFile" -> <<"RepositoryFiles.remove">>
    [] m = "getProjectStatistics" -> <<"ProjectStatistics.show">>
    [] m = "getZones" -> <<"cf.zones.browse">>
    [] m = "getZone" -> <<"cf.zones.read">>
    [] m = "getDNSRecords" -> <<"cf.dnsRecords.browse">>
    [] m = "createDNSRecord" -> <<"cf.dnsRecords.add">>
    [] m = "updateDNSRecord" -> <<"cf.dnsRecords.edit">>
    [] m = "deleteDNSRecord" -> <<"cf.dnsRecords.del">>
    [] m = "purgeCache" -> <<"cf.zones.purgeCache">>
    [] m = "getAnalytics" -> <<"cf.zones.analytics.dashboard">>
    [] m = "getSecuritySettings" -> <<"cf.zones.settings.browse">>
    [] m = "updateSecurityLevel" -> <<"cf.zones.settings.edit">>
    [] m = "getSSLSettings" -> <<"cf.zones.settings.read">>
    [] m = "updateSSLMode" -> <<"cf.zones.settings.edit">>
    [] m = "generateContent" -> <<"model.generateContent">>
    [] m = "analyzeContent" -> <<"model.generateContent">>
    [] m = "generateDocumentContent" -> <<"model.generateContent">>
    [] m = "enhanceContent" -> <<"model.generateContent">>
    [] m = "createDocument" -> EffectiveDefinition(CreateDocumentDefinitions)
    [] m = "getDocument" -> <<"docs.documents.get">>
    [] m = "updateDocument" -> <<"docs.documents.batchUpdate">>
    [] m = "insertText" -> <<"docs.documents.batchUpdate">>
    [] m = "appendText" -> <<"docs.documents.get", "docs.documents.batchUpdate">>
    [] m = "replaceText" -> <<"docs.documents.batchUpdate">>
    [] m = "axios.get" -> <<"axios.get">>
    [] m = "axios.post" -> <<"axios.post">>
    [] m = "axios.put" -> <<"axios.put">>
    [] m = "axios.delete" -> <<"axios.delete">>

IndexOf(seq, x) == CHOOSE i \in 1..Len(seq) : seq[i] = x

\* mutant: a failed call that is not the method's last is ignored and the
\* method goes on to its next call
StraightLine_Continue(m, api, ok) ==
  LET cs == MethodCalls(m)
      i == IndexOf(cs, api)
  IN IF i < Len(cs) THEN cs[i + 1]
     ELSE IF ok THEN "return" ELSE "throw"

\* mutant: the catch logs and returns instead of rethrowing
StraightLine_Swallow(m, api, ok) ==
  LET cs == MethodCalls(m)
      i == IndexOf(cs, api)
  IN IF ok /\ i < Len(cs) THEN cs[i + 1] ELSE "return"

\* a method that awaits its vendor calls one after the other inside one
\* try block: the first failure is rethrown, the last success is returned
StraightLine(m, api, ok) ==
  LET cs == MethodCalls(m)
      i == IndexOf(cs, api)
  IN IF ~ok THEN "throw"
     ELSE IF i < Len(cs) THEN cs[i + 1] ELSE "return"

\* gitlab-service.js 219-243: the inner try holds show and edit, its catch
\* calls create; only what leaves the inner catch reaches the outer catch
CreateOrUpdateFile(api, ok) ==
  CASE api = "RepositoryFiles.show" ->
         IF ok THEN "RepositoryFiles.edit" ELSE "RepositoryFiles.create"
    [] api = "RepositoryFiles.edit" ->
         IF ok THEN "return" ELSE "RepositoryFiles.create"
    [] api = "RepositoryFiles.create" ->
         IF ok THEN "return" ELSE "throw"

\* what method m does when its vendor call api has returned (ok) or failed:
\* "return", "throw", or the next vendor call it awaits
Plan(m, api, ok) ==
  IF m = "createOrUpdateFile" THEN CreateOrUpdateFile(api, ok)
  ELSE StraightLine(m, api, ok)

(***************************************************************************)
(* Requests                                                                *)
(***************************************************************************)
NoResp == [status |-> 0, kind |-> "none", error |-> "", googleDoc |-> FALSE]

\* ep     the endpoint          pc    "idle", "await" or "responded"
\* body   req.body (req.query of a GET) as the handler read it
\* flag   createGoogleDoc / replaceOriginal of the body, as a boolean
\* val    level / mode of the body        apiKey  req.apiKey
\* calls  the vendor calls issued so far, the last one pending while awaiting
\* mres   how each service method the handler awaited ended
\* resp   the response sent           sent  how many responses were sent
IdleReq ==
  [ep |-> "", pc |-> "idle", body |-> <<>>, flag |-> FALSE, val |-> "", apiKey |-> Undef,
   calls |-> <<>>, mres |-> <<>>, resp |-> NoResp, sent |-> 0]

Last(s) == s[Len(s)]
SetLast(s, x) == [s EXCEPT ![Len(s)] = x]

AxiosCalls == {"axios.get", "axios.post", "axios.put", "axios.delete"}
BatchUpdate == "docs.documents.batchUpdate"

\* res.status(status).json(body) / res.json(body)
Respond(q, status, kind, error, gd) ==
  [q EXCEPT !.pc = "responded",
            !.resp = [status |-> status, kind |-> kind, error |-> error, googleDoc |-> gd],
            !.sent = @ + 1]

\* the argument of a vendor call the model follows: the x-api-key header,
\* the setting value, or the document the call is about ("d" the
\* :documentId of the path, "new" the document documents.create returned)
CallArg(q, m, api) ==
  CASE api \in AxiosCalls -> q.apiKey
    [] api = "cf.zones.settings.edit" -> q.val
    [] api = "drive.permissions.create" -> "new"
    [] api = BatchUpdate -> IF Row[q.ep].kind = "generateDocument" THEN "new" ELSE "d"
    [] api = "docs.documents.get" -> "d"
    [] OTHER -> ""

\* {...a, ...b} of JavaScript: the properties of b replace those of a
Spread(a, b) ==
  [k \in DOMAIN a \cup DOMAIN b |-> IF k \in DOMAIN b THEN b[k] ELSE a[k]]

\* index.js 1125-1131: the options GET /gitlab/projects builds from req.query
ProjectOptions(query) ==
  LET keys == {k \in {"owned", "membership"} : query[k] # Undef} \cup
              {k \in {"search", "visibility"} : Truthy(query[k])}
  IN [k \in keys |-> IF k \in {"owned", "membership"}
                     THEN (IF query[k] = "true" THEN "TRUE" ELSE "FALSE")
                     ELSE query[k]]

\* mutant: the defaults are spread after the options and win over them
GetProjectsArgs_DefaultsLast(options) == Spread(options, [owned |-> "TRUE", membership |-> "TRUE"])

\* gitlab-service.js 27-40: what getProjects hands to Projects.all
\* (the booleans true and false are written "TRUE" and "FALSE")
GetProjectsArgs(options) == Spread([owned |-> "TRUE", membership |-> "TRUE"], options)

\* the options object of a vendor call the model follows
CallOpts(q, m, api) ==
  IF api = "Projects.all" THEN GetProjectsArgs(ProjectOptions(q.body)) ELSE <<>>

\* location.index of the insertText request of a batchUpdate (0: none)
CallIndex(q, m, api) ==
  IF api # BatchUpdate THEN 0
  ELSE CASE m = "insertText" -> 1
         [] m = "appendText" -> Last(q.calls).end - 1
         [] OTHER -> 0

\* issue vendor call api inside method m and await it
Issue(q, m, api) ==
  [q EXCEPT !.pc = "await",
            !.calls = Append(@, [api |-> api, method |-> m, arg |-> CallArg(q, m, api),
                                 opts |-> CallOpts(q, m, api),
                                 index |-> CallIndex(q, m, api), out |-> "pending",
                                 err |-> "", status |-> 0, data |-> "",
                                 end |-> 0, blank |-> FALSE, exists |-> fileExists])]

\* await service.m(...): the method runs to its first vendor call
Invoke(q, m) == Issue(q, m, MethodCalls(m)[1])

EndMethod(q, m, how, err) ==
  [q EXCEPT !.mres = Append(@, [method |-> m, out |-> how, err |-> err])]

\* mutant: every handler sends the vendor's result as it came
SuccessKind_Raw(kind) == "upstream"

\* the envelope of a handler's final res.json: {success: true, ...} in the
\* Cloudflare, Hugging Face, GitLab, Gemini and Google Docs handlers,
\* response.data as it came in the Taskade handlers
SuccessKind(kind) == IF kind = "taskade" THEN "upstream" ELSE "success"

\* mutant: the document handlers do not test the extracted text
OnReturn_NoEmptyCheck(q, m) ==
  LET kind == Row[q.ep].kind
      success == Respond(q, 200, SuccessKind(kind), "", FALSE)
  IN CASE kind \in {"simple", "taskade"} -> success
       [] kind = "generateDocument" /\ m = "generateDocumentContent" ->
            IF q.flag THEN Invoke(q, "createDocument") ELSE success
       [] kind = "generateDocument" /\ m = "createDocument" -> Invoke(q, "insertText")
       [] kind = "generateDocument" /\ m = "insertText" ->
            Respond(q, 200, "success", "", TRUE)
       [] kind = "enhanceDocument" /\ m = "getDocument" -> Invoke(q, "enhanceContent")
       [] kind = "enhanceDocument" /\ m = "enhanceContent" ->
            IF q.flag THEN Invoke(q, "replaceText") ELSE Invoke(q, "appendText")
       [] kind = "enhanceDocument" /\ m \in {"replaceText", "appendText"} -> success
       [] kind = "analyzeDocument" /\ m = "getDocument" -> Invoke(q, "analyzeContent")
       [] kind = "analyzeDocument" /\ m = "analyzeContent" -> success

\* mutant: enhance-document appends when asked to replace and replaces
\* when asked to append
OnReturn_Swapped(q, m) ==
  LET kind == Row[q.ep].kind
      empty == Respond(q, 400, "error", "Document appears to be empty", FALSE)
      success == Respond(q, 200, SuccessKind(kind), "", FALSE)
  IN CASE kind \in {"simple", "taskade"} -> success
       [] kind = "generateDocument" /\ m = "generateDocumentContent" ->
            IF q.flag THEN Invoke(q, "createDocument") ELSE success
       [] kind = "generateDocument" /\ m = "createDocument" -> Invoke(q, "insertText")
       [] kind = "generateDocument" /\ m = "insertText" ->
            Respond(q, 200, "success", "", TRUE)
       [] kind = "enhanceDocument" /\ m = "getDocument" ->
            IF Last(q.calls).blank THEN empty ELSE Invoke(q, "enhanceContent")
       [] kind = "enhanceDocument" /\ m = "enhanceContent" ->
            IF q.flag THEN Invoke(q, "appendText") ELSE Invoke(q, "replaceText")
       [] kind = "enhanceDocument" /\ m \in {"replaceText", "appendText"} -> success
       [] kind = "analyzeDocument" /\ m = "getDocument" ->
            IF Last(q.calls).blank THEN empty ELSE Invoke(q, "analyzeContent")
       [] kind = "analyzeDocument" /\ m = "analyzeContent" -> success

\* the handler after the service method m it awaited has returned
OnReturn(q, m) ==
  LET kind == Row[q.ep].kind
      empty == Respond(q, 400, "error", "Document appears to be empty", FALSE)
      success == Respond(q, 200, SuccessKind(kind), "", FALSE)
  IN CASE kind \in {"simple", "taskade"} -> success
       [] kind = "generateDocument" /\ m = "generateDocumentContent" ->
            IF q.flag THEN Invoke(q, "createDocument") ELSE success
       [] kind = "generateDocument" /\ m = "createDocument" -> Invoke(q, "insertText")
       [] kind = "generateDocument" /\ m = "insertText" ->
            Respond(q, 200, "success", "", TRUE)
       [] kind = "enhanceDocument" /\ m = "getDocument" ->
            IF Last(q.calls).blank THEN empty ELSE Invoke(q, "enhanceContent")
       [] kind = "enhanceDocument" /\ m = "enhanceContent" ->
            IF q.flag THEN Invoke(q, "replaceText") ELSE Invoke(q, "appendText")
       [] kind = "enhanceDocument" /\ m \in {"replaceText", "appendText"} -> success
       [] kind = "analyzeDocument" /\ m = "getDocument" ->
            IF Last(q.calls).blank THEN empty ELSE Invoke(q, "analyzeContent")
       [] kind = "analyzeDocument" /\ m = "analyzeContent" -> success

\* mutant: the Taskade catch answers 500 like the other handlers
TaskadeStatus_Always500(c) == 500

\* error.response?.status || 500 of the Taskade handlers
TaskadeStatus(c) == IF c.status # 0 THEN c.status ELSE 500

\* error.response?.data || error.message || 'Internal server error'
TaskadeError(c) ==
  IF c.status # 0 /\ Truthy(c.data) THEN c.data
  ELSE IF Truthy(c.err) THEN c.err ELSE "Internal server error"

\* mutant: the catch of the plain handlers sends res.json({error}) without
\* status(500)
OnThrow_NoStatus(q, m, c) ==
  LET kind == Row[q.ep].kind
  IN CASE kind = "taskade" -> Respond(q, TaskadeStatus(c), "error", TaskadeError(c), FALSE)
       [] kind = "generateDocument" /\ m \in {"createDocument", "insertText"} ->
            Respond(q, 200, "success", "", FALSE)
       [] OTHER -> Respond(q, 200, "error", c.err, FALSE)

\* mutant: the catch logs the error and sends nothing
OnThrow_LogOnly(q, m, c) == [q EXCEPT !.pc = "ended"]

\* mutant: generate-document has no inner try around its Google Docs calls
OnThrow_NoInnerCatch(q, m, c) ==
  LET kind == Row[q.ep].kind
  IN CASE kind = "taskade" -> Respond(q, TaskadeStatus(c), "error", TaskadeError(c), FALSE)
       [] OTHER -> Respond(q, 500, "error", c.err, FALSE)

\* the handler's catch, c the failed vendor call whose error method m threw
OnThrow(q, m, c) ==
  LET kind == Row[q.ep].kind
  IN CASE kind = "taskade" -> Respond(q, TaskadeStatus(c), "error", TaskadeError(c), FALSE)
       [] kind = "generateDocument" /\ m \in {"createDocument", "insertText"} ->
            \* inner catch (docError): continue without Google Doc creation
            Respond(q, 200, "success", "", FALSE)
       [] OTHER -> Respond(q, 500, "error", c.err, FALSE)

\* one resolved vendor call later: the method goes on, returns or throws,
\* and the handler runs to its next await or to its response
AfterReply(q) ==
  LET c == Last(q.calls)
      step == Plan(c.method, c.api, c.out = "ok")
  IN CASE step = "return" -> OnReturn(EndMethod(q, c.method, "returned", ""), c.method)
       [] step = "throw" -> OnThrow(EndMethod(q, c.method, "threw", c.err), c.method, c)
       [] OTHER -> Issue(q, c.method, step)

\* mutant: the middleware calls next() whether or not the key is set
Authenticated_Always(e) == TRUE

\* middleware authenticateRequest (index.js 823-831): TRUE when it calls next()
Authenticated(e) == Truthy(e["TASKADE_API_KEY"])

\* mutant: the handlers that start with a Google Docs call lack the guard
Unavailable_SimpleOnly(ep, svcs) ==
  Row[ep].kind = "simple" /\ Row[ep].svc \in GuardedServices /\ ~svcs[Row[ep].svc]

\* if (!xService) return res.status(503)...
Unavailable(ep, svcs) == Row[ep].svc \in GuardedServices /\ ~svcs[Row[ep].svc]

\* mutant: the 400 response lacks its return and the handler goes on to the
\* vendor call
Handler_FallThrough(ep, b) ==
  LET q == [IdleReq EXCEPT
              !.ep = ep,
              !.body = b,
              !.flag = (FlagOf(ep) # {} /\ \E f \in FlagOf(ep) : Truthy(b[f])),
              !.val = IF Row[ep].check \in {"level", "mode"}
                      THEN b[CHOOSE f \in Row[ep].fields : TRUE] ELSE ""]
  IN IF Row[ep].kind = "taskade"
     THEN IF Authenticated(env)
          THEN Invoke([q EXCEPT !.apiKey = env["TASKADE_API_KEY"]], Row[ep].method)
          ELSE Respond(q, 401, "error", "TASKADE_API_KEY environment variable is not set", FALSE)
     ELSE IF Unavailable(ep, services)
          THEN Respond(q, 503, "error", "service is not available", FALSE)
          ELSE IF Invalid(ep, b)
               THEN Invoke(Respond(q, 400, "error", "required field missing", FALSE), Row[ep].method)
               ELSE Invoke(q, Row[ep].method)

\* the handler of ep from its first line to its first await or response
Handler(ep, b) ==
  LET q == [IdleReq EXCEPT
              !.ep = ep,
              !.body = b,
              !.flag = (FlagOf(ep) # {} /\ \E f \in FlagOf(ep) : Truthy(b[f])),
              !.val = IF Row[ep].check \in {"level", "mode"}
                      THEN b[CHOOSE f \in Row[ep].fields : TRUE] ELSE ""]
  IN IF Row[ep].kind = "taskade"
     THEN IF Authenticated(env)
          THEN Invoke([q EXCEPT !.apiKey = env["TASKADE_API_KEY"]], Row[ep].method)
          ELSE Respond(q, 401, "error", "TASKADE_API_KEY environment variable is not set", FALSE)
     ELSE IF Unavailable(ep, services)
          THEN Respond(q, 503, "error", "service is not available", FALSE)
          ELSE IF Invalid(ep, b)
               THEN Respond(q, 400, "error", "required field missing", FALSE)
               ELSE Invoke(q, Row[ep].method)

(***************************************************************************)
(* The vendors, as far as the service methods depend on them: one          *)
(* repository file and one shared document, the one the path names         *)
(***************************************************************************)
Msgs == {"m1", "m2"}

\* the change of the document's last endIndex a batchUpdate can make
Deltas(c) ==
  IF c.api = BatchUpdate /\ c.arg = "d"
  THEN IF c.method \in {"insertText", "appendText"} THEN {1} ELSE {-1, 0, 1}
  ELSE {0}

\* the vendor can answer the call with a result
CanSucceed(c, delta) ==
  /\ c.api \in {"RepositoryFiles.show", "RepositoryFiles.edit", "RepositoryFiles.remove",
                "RepositoryFiles.showRaw"} => fileExists
  /\ c.api = "RepositoryFiles.create" => ~fileExists
  /\ (c.api = BatchUpdate /\ c.arg = "d") =>
        /\ doc.end + delta \in 2..MaxDocEnd
        /\ c.method \in {"insertText", "appendText"} => c.index \in 1..(doc.end - 1)

\* the errors the vendor can answer the call with: message, HTTP status of
\* the response (0: no response) and response body
Failures(c) ==
  CASE c.api \in AxiosCalls ->
         [message : Msgs, status : {0}, data : {""}] \cup
         [message : Msgs, status : {404, 502}, data : {"", "d1"}]
    [] c.api = "RepositoryFiles.show" ->
         [message : Msgs, status : IF fileExists THEN {0} ELSE {0, 404}, data : {""}]
    [] OTHER -> [message : Msgs, status : {0}, data : {""}]

FileAfter(c) ==
  CASE c.api = "RepositoryFiles.create" -> TRUE
    [] c.api = "RepositoryFiles.remove" -> FALSE
    [] OTHER -> fileExists

DocAfter(c, delta) ==
  IF c.api = BatchUpdate /\ c.arg = "d"
  THEN [end |-> doc.end + delta,
        blank |-> IF delta = 1 THEN FALSE ELSE IF doc.end + delta = 2 THEN TRUE ELSE doc.blank]
  ELSE doc

(***************************************************************************)
(* Actions                                                                 *)
(***************************************************************************)
Idle(r) == reqs[r].pc = "idle"

\* a request arrives and takes the lowest free slot
FreeSlot(r) == Idle(r) /\ \A o \in Reqs : o < r => ~Idle(o)

Arrive(r, ep, b) ==
  /\ FreeSlot(r)
  /\ reqs' = [reqs EXCEPT ![r] = Handler(ep, b)]
  /\ UNCHANGED <<env, services, fileExists, doc>>

VendorReturn(r, delta) ==
  /\ reqs[r].pc = "await"
  /\ LET q == reqs[r]
         c == Last(q.calls)
         done == [c EXCEPT !.out = "ok",
                           !.end = IF c.arg = "d" THEN doc.end ELSE 0,
                           !.blank = IF c.api = "docs.documents.get" THEN doc.blank ELSE FALSE]
     IN /\ delta \in Deltas(c)
        /\ CanSucceed(c, delta)
        /\ reqs' = [reqs EXCEPT ![r] = AfterReply([q EXCEPT !.calls = SetLast(@, done)])]
        /\ fileExists' = FileAfter(c)
        /\ doc' = DocAfter(c, delta)
  /\ UNCHANGED <<env, services>>

\* mutant: the handler's catch drops the handle of the service that failed
VendorFail_DropsService(r, e) ==
  /\ reqs[r].pc = "await"
  /\ LET q == reqs[r]
         c == Last(q.calls)
         done == [c EXCEPT !.out = "fail", !.err = e.message, !.status = e.status,
                           !.data = e.data]
     IN /\ e \in Failures(c)
        /\ reqs' = [reqs EXCEPT ![r] = AfterReply([q EXCEPT !.calls = SetLast(@, done)])]
        /\ services' = IF Row[q.ep].svc \in DOMAIN services
                       THEN [services EXCEPT ![Row[q.ep].svc] = FALSE] ELSE services
  /\ UNCHANGED <<env, fileExists, doc>>

VendorFail(r, e) ==
  /\ reqs[r].pc = "await"
  /\ LET q == reqs[r]
         c == Last(q.calls)
         done == [c EXCEPT !.out = "fail", !.err = e.message, !.status = e.status,
                           !.data = e.data]
     IN /\ e \in Failures(c)
        /\ reqs' = [reqs EXCEPT ![r] = AfterReply([q EXCEPT !.calls = SetLast(@, done)])]
  /\ UNCHANGED <<env, services, fileExists, doc>>

\* the response has gone out and the request is over
Finish(r) ==
  /\ reqs[r].pc = "responded"
  /\ reqs' = [reqs EXCEPT ![r] = IdleReq]
  /\ UNCHANGED <<env, services, fileExists, doc>>

AllFailures ==
  [message : Msgs, status : {0, 404, 502}, data : {"", "d1"}]

(***************************************************************************)
(* Specifications                                                          *)
(***************************************************************************)
Init ==
  /\ env \in {e \in [EnvVars -> {Undef, "", "k1", "k2"}] : \A k \in EnvVars : e[k] \in EnvVals(k)}
  /\ services = InitServices(env)
  /\ reqs = [r \in Reqs |-> IdleReq]
  /\ fileExists \in BOOLEAN
  /\ doc \in {[end |-> 2, blank |-> TRUE], [end |-> 3, blank |-> FALSE]}

\* requests to any endpoint, handled one after the other
ArriveNext == \E ep \in Endpoints : \E b \in Bodies(ep) :
                /\ \A o \in Reqs : Idle(o)
                /\ Arrive(1, ep, b)
ReturnNext == \E r \in Reqs : \E delta \in {-1, 0, 1} : VendorReturn(r, delta)
FailNext == \E r \in Reqs : \E e \in AllFailures : VendorFail(r, e)
FinishNext == \E r \in Reqs : Finish(r)

Next == ArriveNext \/ ReturnNext \/ FailNext \/ FinishNext

Spec == Init /\ [][Next]_vars

\* the pending vendor call of request r is answered, with a result or with
\* an error
Resolve(r) ==
  \/ \E delta \in {-1, 0, 1} : VendorReturn(r, delta)
  \/ \E e \in AllFailures : VendorFail(r, e)

\* a server started with every key set, or with none
InitLive ==
  /\ Init
  /\ \/ \A k \in EnvVars : env[k] = "k1"
     \/ \A k \in EnvVars : env[k] = Undef

\* that server with vendors that answer every call
SpecLive == InitLive /\ [][Next]_vars /\ \A r \in Reqs : WF_vars(Resolve(r))

\* the Google Docs endpoints: their vendor calls read and write the one
\* shared document
SharedEndpoints == {ep \in Endpoints : Row[ep].svc = "googledocs"}

\* a server with every key configured
InitConc == Init /\ \A k \in EnvVars : env[k] = "k1"

\* requests to those endpoints, up to NumReqs of them in flight at a time
ArriveConc == \E r \in Reqs : \E ep \in SharedEndpoints : \E b \in Bodies(ep) : Arrive(r, ep, b)

NextConc == ArriveConc \/ ReturnNext \/ FailNext \/ FinishNext

SpecConc == InitConc /\ [][NextConc]_vars

(***************************************************************************)
(* Properties                                                              *)
(***************************************************************************)
Responded(r) == reqs[r].pc = "responded"
Kind(q) == Row[q.ep].kind
FailedCalls(q) == {i \in DOMAIN q.calls : q.calls[i].out = "fail"}
IsSuccess(q) == q.resp.kind \in {"success", "upstream"} /\ q.resp.status = 200

\* the error response the handler's catch builds from the failed call c
IsErrorFor(q, c) ==
  /\ q.resp.kind = "error"
  /\ IF Kind(q) = "taskade"
     THEN /\ q.resp.status = (IF c.status # 0 THEN c.status ELSE 500)
          /\ q.resp.error = (IF c.status # 0 /\ c.data # "" THEN c.data ELSE c.err)
     ELSE /\ q.resp.status = 500
          /\ q.resp.error = c.err

\* the two places where the code catches a vendor failure and goes on
Tolerated(q, c) ==
  \/ c.method = "createOrUpdateFile" /\ c.api \in {"RepositoryFiles.show", "RepositoryFiles.edit"}
  \/ Kind(q) = "generateDocument" /\ c.method \in {"createDocument", "insertText"}

\* C1 as stated: a request in which a vendor call failed is answered with
\* an error response (500 or the vendor's status) that carries the error
\* message, never with a success response.
C1_AsStated ==
  \A r \in Reqs :
    (Responded(r) /\ FailedCalls(reqs[r]) # {}) =>
       \E i \in FailedCalls(reqs[r]) : IsErrorFor(reqs[r], reqs[r].calls[i])

\* C1 (amended): a vendor failure is answered with an error response (500,
\* or the upstream status for Taskade) carrying that failure's message,
\* except for the failures the code catches and goes on from:
\* RepositoryFiles.show / edit inside createOrUpdateFile and the Google Docs
\* calls of POST /gemini/generate-document.  A request with a failed call is
\* answered with a success only when all its failures are of these, and
\* then generate-document's googleDoc is null.
C1_ErrorsPropagate ==
  \A r \in Reqs :
    Responded(r) =>
      LET q == reqs[r]
      IN /\ \A i \in FailedCalls(q) :
              ~Tolerated(q, q.calls[i]) => IsErrorFor(q, q.calls[i])
         /\ (FailedCalls(q) # {} /\ q.resp.kind # "error") =>
              /\ IsSuccess(q)
              /\ \A i \in FailedCalls(q) : Tolerated(q, q.calls[i])
              /\ ~q.resp.googleDoc
              /\ Last(q.calls).out = "ok" \/ Kind(q) = "generateDocument"

C1_Witness ==
  \E r \in Reqs :
    /\ Responded(r)
    /\ reqs[r].ep = "POST /gemini/generate-document"
    /\ Len(reqs[r].calls) = 1
    /\ reqs[r].calls[1].out = "fail"
    /\ reqs[r].resp.status = 500
    /\ reqs[r].resp.error = reqs[r].calls[1].err

\* C2 as stated: once a vendor call of a request has failed, no further
\* vendor call is issued for that request.
C2_AsStated ==
  \A r \in Reqs : \A i \in FailedCalls(reqs[r]) : i = Len(reqs[r].calls)

\* C2 (amended): a failed vendor call is never issued again, and the only
\* call issued after a failure is the one RepositoryFiles.create that
\* createOrUpdateFile makes after its show or edit failed; nothing follows
\* a failed create.
C2_NoRetry ==
  \A r \in Reqs :
    LET cs == reqs[r].calls
    IN \A i \in FailedCalls(reqs[r]) :
         i < Len(cs) =>
           /\ cs[i].method = "createOrUpdateFile"
           /\ cs[i].api \in {"RepositoryFiles.show", "RepositoryFiles.edit"}
           /\ i + 1 = Len(cs)
           /\ cs[i + 1].api = "RepositoryFiles.create"

C2_Witness ==
  \E r \in Reqs :
    /\ Responded(r)
    /\ reqs[r].ep = "POST /huggingface/image-classification"
    /\ Len(reqs[r].calls) = 2
    /\ reqs[r].calls[2].out = "fail"

\* the vendor calls of the request made inside service method m
CallsOf(q, m) == SelectSeq(q.calls, LAMBDA c : c.method = m)
ServiceResults(q) == {k \in DOMAIN q.mres : q.mres[k].method \notin AxiosCalls}
FirstFailed(cs) ==
  CHOOSE i \in DOMAIN cs : cs[i].out = "fail" /\ \A j \in 1..(i - 1) : cs[j].out # "fail"

\* service method result e rethrows the first failure among its calls cs
Rethrows(e, cs) ==
  /\ (\E i \in DOMAIN cs : cs[i].out = "fail") =>
        e.out = "threw" /\ e.err = cs[FirstFailed(cs)].err
  /\ e.out = "threw" => \E i \in DOMAIN cs : cs[i].out = "fail"

\* C3 as stated: every service method rethrows the error of the first
\* vendor call that failed inside it; no vendor failure is swallowed.
C3_AsStated ==
  \A r \in Reqs : \A k \in ServiceResults(reqs[r]) :
    Rethrows(reqs[r].mres[k], CallsOf(reqs[r], reqs[r].mres[k].method))

\* C3 (amended): every service method but createOrUpdateFile rethrows the
\* error of the first vendor call that failed inside it.  createOrUpdateFile
\* swallows a failure of show or edit and calls create; it throws exactly
\* when create failed, and then it throws create's error.
C3_Rethrow ==
  \A r \in Reqs : \A k \in ServiceResults(reqs[r]) :
    LET e == reqs[r].mres[k]
        cs == CallsOf(reqs[r], e.method)
    IN IF e.method # "createOrUpdateFile" THEN Rethrows(e, cs)
       ELSE /\ e.out = "threw" <=>
                 (Last(cs).api = "RepositoryFiles.create" /\ Last(cs).out = "fail")
            /\ e.out = "threw" => e.err = Last(cs).err

C3_Witness ==
  \E r \in Reqs :
    /\ reqs[r].ep = "POST /google-docs/:documentId/append"
    /\ Len(reqs[r].calls) = 2
    /\ reqs[r].calls[2].out = "fail"
    /\ reqs[r].mres = <<[method |-> "appendText", out |-> "threw", err |-> "m2"]>>

\* C4: every upstream call to the Taskade API carries an x-api-key header
\* equal to TASKADE_API_KEY, and a /taskade-tower/agents request that finds
\* TASKADE_API_KEY unset is answered 401 without any upstream call.
C4_TaskadeKey ==
  \A r \in Reqs :
    LET q == reqs[r]
    IN /\ \A i \in DOMAIN q.calls :
            q.calls[i].api \in AxiosCalls =>
              q.calls[i].arg = env["TASKADE_API_KEY"] /\ q.calls[i].arg # Undef
       /\ (q.pc # "idle" /\ Kind(q) = "taskade" /\ env["TASKADE_API_KEY"] = Undef) =>
            q.pc = "responded" /\ q.resp.status = 401 /\ q.calls = <<>>

C4_Witness ==
  \E r \in Reqs :
    /\ reqs[r].ep = "POST /taskade-tower/agents/:agentId/execute"
    /\ reqs[r].pc = "await"
    /\ Last(reqs[r].calls).api = "axios.post"
    /\ Last(reqs[r].calls).arg = "k2"
    /\ env["TASKADE_API_KEY"] = "k2"

\* C5: when the API key of Gemini, Cloudflare, Hugging Face or GitLab is
\* unset at startup, every request to an endpoint of that service is
\* answered 503 and no vendor call is made for it.
C5_Unavailable503 ==
  \A r \in Reqs :
    LET q == reqs[r]
    IN (q.pc # "idle" /\ Row[q.ep].svc \in GuardedServices
          /\ env[KeyOf(Row[q.ep].svc)] = Undef) =>
         q.pc = "responded" /\ q.resp.status = 503 /\ q.calls = <<>>

C5_Witness ==
  \E r \in Reqs :
    /\ reqs[r].ep = "POST /gemini/enhance-document/:documentId"
    /\ env["GEMINI_API_KEY"] = Undef
    /\ reqs[r].resp.status = 503
    /\ reqs[r].calls = <<>>

\* C6 as stated: every JSON response of every vendor endpoint is a success
\* body with success: true or an error body with an error field.
C6_AsStated ==
  \A r \in Reqs : Responded(r) => reqs[r].resp.kind \in {"success", "error"}

\* C6 (amended): every JSON response of the Cloudflare, Hugging Face,
\* GitLab, Gemini and Google Docs endpoints is a success body with
\* success: true or an error body with an error field; a Taskade endpoint
\* answers an upstream success with the upstream body as it came, and a
\* failure with an error body.
C6_Envelopes ==
  \A r \in Reqs :
    Responded(r) =>
      LET q == reqs[r]
      IN IF Kind(q) = "taskade"
         THEN \/ q.resp.kind = "upstream" /\ q.resp.status = 200 /\ FailedCalls(q) = {}
              \/ q.resp.kind = "error" /\ q.resp.status >= 400
         ELSE \/ q.resp.kind = "success" /\ q.resp.status = 200
              \/ q.resp.kind = "error" /\ q.resp.status >= 400

C6_Witness ==
  \E r \in Reqs :
    /\ Responded(r)
    /\ reqs[r].ep = "GET /cloudflare/zones"
    /\ reqs[r].resp.kind = "success"
    /\ Last(reqs[r].calls).out = "ok"

C8_PublicAfterCreate ==
  \A r \in Reqs : \A k \in DOMAIN reqs[r].mres :
    (reqs[r].mres[k].method = "createDocument" /\ reqs[r].mres[k].out = "returned") =>
       \E i \in DOMAIN reqs[r].calls :
         /\ reqs[r].calls[i].api = "drive.permissions.create"
         /\ reqs[r].calls[i].arg = "new"
         /\ reqs[r].calls[i].out = "ok"

\* C9: createOrUpdateFile issues RepositoryFiles.create only for a file
\* that does not exist, and RepositoryFiles.edit only for one that does.
C9_CreateOnlyIfAbsent ==
  \A r \in Reqs : \A i \in DOMAIN reqs[r].calls :
    LET c == reqs[r].calls[i]
    IN /\ c.api = "RepositoryFiles.create" => ~c.exists
       /\ c.api = "RepositoryFiles.edit" => c.exists

\* C10: the insertion index appendText sends equals the document's last
\* endIndex minus 1 at the moment the update is applied.
C10_AppendAtEnd ==
  \A r \in Reqs : \A i \in DOMAIN reqs[r].calls :
    LET c == reqs[r].calls[i]
    IN (c.method = "appendText" /\ c.api = BatchUpdate /\ c.out = "ok") =>
         c.index = c.end - 1

\* C11: every handler sends at most one response per request: a request is
\* answered exactly when its handler has ended, a request still awaiting a
\* vendor call has sent nothing, a request answered 401, 503 or 400 has no
\* vendor call pending and none issued after the response, and once a
\* response was sent the request takes no further step (no further call,
\* response or caught failure) until its slot is freed.
C11_OneResponse ==
  /\ \A r \in Reqs :
        LET q == reqs[r]
        IN /\ q.sent <= 1
           /\ q.sent = 1 <=> q.pc = "responded"
           /\ q.pc = "await" => Last(q.calls).out = "pending"
           /\ q.pc = "responded" => \A i \in DOMAIN q.calls : q.calls[i].out # "pending"
           /\ (q.pc = "responded" /\ q.resp.status \in {401, 503}) => q.calls = <<>>
  /\ [][\A r \in Reqs :
          reqs[r].sent >= 1 => (reqs'[r] = reqs[r] \/ reqs'[r] = IdleReq)]_vars

C11_Witness ==
  \E r \in Reqs :
    /\ reqs[r].ep = "POST /gemini/enhance-document/:documentId"
    /\ reqs[r].pc = "responded"
    /\ reqs[r].resp.status = 400
    /\ reqs[r].sent = 1
    /\ Len(reqs[r].calls) = 1

AnswerStatuses == {200, 400, 401, 503, 500, 404, 502}

\* C12: when every vendor call started for a request eventually returns or
\* fails, every request that arrived is eventually answered, with exactly
\* one response: a success or a 400, 401, 503, 500 or vendor-status error.
C12_EventuallyAnswered ==
  \A r \in Reqs :
    (reqs[r].pc # "idle") ~>
       /\ reqs[r].pc = "responded"
       /\ reqs[r].sent = 1
       /\ reqs[r].resp.status \in AnswerStatuses
       /\ reqs[r].resp.kind \in {"success", "upstream", "error"}

C12_Witness ==
  \E r \in Reqs :
    /\ reqs[r].ep = "POST /taskade-tower/agents/:agentId/execute"
    /\ reqs[r].pc = "responded"
    /\ reqs[r].sent = 1
    /\ Len(reqs[r].calls) = 1
    /\ reqs[r].calls[1].out = "fail"
    /\ reqs[r].resp.status = 502

\* the endpoints whose handler validates fields of the request
Validating(q) == q.pc # "idle" /\ Row[q.ep].check # "none"

\* a required field of the request is missing or empty
RequiredMissing(q) == \E f \in Row[q.ep].fields : Falsy(q.body[f])

FailsRequired(q) ==
  IF Row[q.ep].check = "replace"
  THEN Falsy(q.body["searchText"]) \/ q.body["replaceText"] = Undef
  ELSE RequiredMissing(q)

AllowedSetting(m) ==
  IF m = "updateSecurityLevel"
  THEN {"off", "essentially_off", "low", "medium", "high", "under_attack"}
  ELSE {"off", "flexible", "full", "strict"}

SettingUpdate(q) == q.pc # "idle" /\ Row[q.ep].method \in {"updateSecurityLevel", "updateSSLMode"}

\* every settings.edit call carries a value of the list of its setting, and
\* a request with another or no value issues no call
OnlyAllowedEdited(q) ==
  /\ \A i \in DOMAIN q.calls :
        q.calls[i].api = "cf.zones.settings.edit" =>
          /\ q.calls[i].method = Row[q.ep].method
          /\ q.calls[i].arg = q.body[CHOOSE f \in Row[q.ep].fields : TRUE]
          /\ q.calls[i].arg \in AllowedSetting(q.calls[i].method)
  /\ q.body[CHOOSE f \in Row[q.ep].fields : TRUE] \notin AllowedSetting(Row[q.ep].method) =>
        q.pc = "responded" /\ q.calls = <<>>

BadSetting(q) == q.body[CHOOSE f \in Row[q.ep].fields : TRUE] \notin AllowedSetting(Row[q.ep].method)

\* C14 as stated: security_level and ssl are edited only with a value of
\* their allowed list; any other or missing value is answered 400 and no
\* setting is edited.
C14_AsStated ==
  \A r \in Reqs :
    LET q == reqs[r]
    IN SettingUpdate(q) =>
         /\ OnlyAllowedEdited(q)
         /\ BadSetting(q) => q.resp.status = 400

\* C14 (amended): security_level and ssl are edited only with a value of
\* their allowed list; any other or missing value issues no vendor call and
\* is answered 400 when the Cloudflare service is available, 503 when it is
\* not.
C14_AllowedSettings ==
  \A r \in Reqs :
    LET q == reqs[r]
    IN SettingUpdate(q) =>
         /\ OnlyAllowedEdited(q)
         /\ BadSetting(q) => q.resp.status = IF services["cloudflare"] THEN 400 ELSE 503

C14_Witness ==
  \E r \in Reqs :
    /\ reqs[r].ep = "PUT /cloudflare/zones/:zoneId/security-level"
    /\ reqs[r].pc = "await"
    /\ Last(reqs[r].calls).api = "cf.zones.settings.edit"
    /\ Last(reqs[r].calls).arg = "under_attack"

\* a request to enhance-document or analyze-document
DocumentAI(q) == q.pc # "idle" /\ Kind(q) \in {"enhanceDocument", "analyzeDocument"}

\* C15: in enhance-document and analyze-document, when the text read from
\* the document is empty or whitespace only the request is answered 400
\* 'Document appears to be empty' and the read stays its only vendor call
\* (no Gemini call, no document write); a Gemini call is made only after
\* the document read returned.
C15_EmptyDocument ==
  \A r \in Reqs :
    LET q == reqs[r]
    IN DocumentAI(q) =>
         /\ (q.calls # <<>> /\ q.calls[1].out = "ok" /\ q.calls[1].blank) =>
               /\ q.pc = "responded"
               /\ q.resp.status = 400
               /\ q.resp.error = "Document appears to be empty"
               /\ Len(q.calls) = 1
         /\ \A i \in DOMAIN q.calls :
               q.calls[i].api \in {"model.generateContent", BatchUpdate} =>
                 /\ i > 1
                 /\ q.calls[1].api = "docs.documents.get"
                 /\ q.calls[1].method = "getDocument"
                 /\ q.calls[1].out = "ok"
                 /\ ~q.calls[1].blank

C15_Witness ==
  \E r \in Reqs :
    /\ reqs[r].ep = "GET /gemini/analyze-document/:documentId"
    /\ reqs[r].pc = "responded"
    /\ Len(reqs[r].calls) = 1
    /\ reqs[r].calls[1].out = "ok"
    /\ reqs[r].calls[1].blank
    /\ reqs[r].resp.error = "Document appears to be empty"

\* the document modifications (batchUpdate calls) and the Gemini calls of a
\* request
Modifications(q) == {i \in DOMAIN q.calls : q.calls[i].api = BatchUpdate}
GeminiCalls(q) == {i \in DOMAIN q.calls : q.calls[i].api = "model.generateContent"}

\* C16: in enhance-document a document modification is issued only after
\* the Gemini call returned, at most one per request, by replaceText when
\* replaceOriginal is truthy and by appendText otherwise; a successful
\* request issued exactly one; when the Gemini call failed none is issued
\* and the answer is 500.
C16_OneModification ==
  \A r \in Reqs :
    LET q == reqs[r]
    IN (q.pc # "idle" /\ Kind(q) = "enhanceDocument") =>
         /\ Cardinality(Modifications(q)) <= 1
         /\ \A i \in Modifications(q) :
               /\ \E j \in GeminiCalls(q) : j < i /\ q.calls[j].out = "ok"
               /\ q.calls[i].method =
                    (IF Truthy(q.body["replaceOriginal"]) THEN "replaceText" ELSE "appendText")
         /\ (q.pc = "responded" /\ IsSuccess(q)) =>
               /\ Cardinality(Modifications(q)) = 1
               /\ \A i \in Modifications(q) : q.calls[i].out = "ok"
         /\ \A j \in GeminiCalls(q) :
               q.calls[j].out = "fail" =>
                 /\ Modifications(q) = {}
                 /\ q.pc = "responded"
                 /\ q.resp.status = 500
                 /\ q.resp.kind = "error"

C16_Witness ==
  \E r \in Reqs :
    /\ reqs[r].ep = "POST /gemini/enhance-document/:documentId"
    /\ reqs[r].pc = "responded"
    /\ IsSuccess(reqs[r])
    /\ reqs[r].body["replaceOriginal"] = "v"
    /\ Last(reqs[r].calls).method = "replaceText"
    /\ Last(reqs[r].calls).out = "ok"

\* service method m was awaited by the request and returned
Returned(q, m) == \E k \in DOMAIN q.mres : q.mres[k].method = m /\ q.mres[k].out = "returned"

GoogleDocsCalls(q) ==
  {i \in DOMAIN q.calls : q.calls[i].api \in {"docs.documents.create", "drive.permissions.create",
                                                "docs.documents.get", BatchUpdate}}

\* C17: in generate-document, once the content was generated the request
\* is answered with a success whatever the Google Docs calls do; the
\* success carries a non-null googleDoc exactly when createGoogleDoc was
\* truthy and createDocument and insertText both returned; with a falsy
\* createGoogleDoc no Google Docs call is made.
C17_GoogleDocOptional ==
  \A r \in Reqs :
    LET q == reqs[r]
    IN (q.pc # "idle" /\ Kind(q) = "generateDocument" /\ Returned(q, "generateDocumentContent")) =>
         /\ q.pc = "responded" =>
               /\ q.resp.kind = "success"
               /\ q.resp.status = 200
               /\ q.resp.googleDoc <=>
                    /\ Truthy(q.body["createGoogleDoc"])
                    /\ Returned(q, "createDocument")
                    /\ Returned(q, "insertText")
         /\ Falsy(q.body["createGoogleDoc"]) => GoogleDocsCalls(q) = {} /\ q.pc = "responded"
         /\ GoogleDocsCalls(q) # {} => Truthy(q.body["createGoogleDoc"])

C17_Witness ==
  \E r \in Reqs :
    /\ reqs[r].ep = "POST /gemini/generate-document"
    /\ reqs[r].pc = "responded"
    /\ reqs[r].body["createGoogleDoc"] = "v"
    /\ Len(reqs[r].calls) = 3
    /\ reqs[r].calls[3].out = "ok"
    /\ reqs[r].resp.googleDoc

\* C18: when the upstream call of a /taskade-tower/agents request failed,
\* the response status is the upstream response's status when the upstream
\* answered and 500 when it did not, and the error field is the upstream
\* response body when there is one and the error's message otherwise.
C18_TaskadeErrors ==
  \A r \in Reqs :
    LET q == reqs[r]
    IN (q.pc # "idle" /\ Kind(q) = "taskade" /\ FailedCalls(q) # {}) =>
         LET c == q.calls[1]
             answered == c.status # 0
         IN /\ q.pc = "responded"
            /\ Len(q.calls) = 1
            /\ q.resp.kind = "error"
            /\ answered => q.resp.status = c.status
            /\ ~answered => q.resp.status = 500
            /\ (answered /\ c.data # "") => q.resp.error = c.data
            /\ ~(answered /\ c.data # "") => q.resp.error = c.err

C18_Witness ==
  \E r \in Reqs :
    /\ reqs[r].ep = "GET /taskade-tower/agents"
    /\ reqs[r].pc = "responded"
    /\ Len(reqs[r].calls) = 1
    /\ reqs[r].calls[1].out = "fail"
    /\ reqs[r].calls[1].status = 404
    /\ reqs[r].calls[1].data = "d1"
    /\ reqs[r].resp.status = 404
    /\ reqs[r].resp.error = "d1"

\* the query parameters and the options of the Projects.all call of a
\* GET /gitlab/projects request
ProjectsCalls(q) == {i \in DOMAIN q.calls : q.calls[i].api = "Projects.all"}

\* owned / membership as the claim states them: true unless the query
\* carries the parameter, then true only for the literal 'true'
FlagAsStated(query, k) ==
  IF query[k] = Undef THEN "TRUE" ELSE IF query[k] = "true" THEN "TRUE" ELSE "FALSE"

\* C19: the Projects.all call of GET /gitlab/projects receives owned and
\* membership as true unless the query carries the parameter, and then the
\* boolean that is true only for the literal 'true'; search and visibility
\* are forwarded, unchanged, only when non-empty; no other query parameter
\* reaches the vendor.
C19_ProjectsQuery ==
  \A r \in Reqs :
    LET q == reqs[r]
    IN (q.pc # "idle" /\ q.ep = "GET /gitlab/projects") =>
         \A i \in ProjectsCalls(q) :
           LET o == q.calls[i].opts
           IN /\ {"owned", "membership"} \subseteq DOMAIN o
              /\ DOMAIN o \subseteq {"owned", "membership", "search", "visibility"}
              /\ o["owned"] = FlagAsStated(q.body, "owned")
              /\ o["membership"] = FlagAsStated(q.body, "membership")
              /\ \A k \in {"search", "visibility"} :
                    /\ k \in DOMAIN o <=> q.body[k] \notin {Undef, ""}
                    /\ k \in DOMAIN o => o[k] = q.body[k]

C19_Witness ==
  \E r \in Reqs :
    /\ reqs[r].ep = "GET /gitlab/projects"
    /\ reqs[r].pc = "await"
    /\ reqs[r].body["owned"] = ""
    /\ reqs[r].body["membership"] = Undef
    /\ reqs[r].body["search"] = "v"
    /\ reqs[r].body["visibility"] = ""
    /\ reqs[r].body["other"] = "v"
    /\ Last(reqs[r].calls).opts = [owned |-> "FALSE", membership |-> "TRUE", search |-> "v"]

====
